---- MODULE Spec2Model ----
(***************************************************************************)
(* Model of util/shared.py: CLI bootstrapping helpers                      *)
(* (initialize_logging, handle_unhandled_exception, parse_args, first,     *)
(* last) acting on process-global state: the logging manager, the default  *)
(* `arguments` list of parse_args, sys.excepthook, the RNG seeds, the      *)
(* environment and the filesystem.                                         *)
(***************************************************************************)
EXTENDS Integers, Sequences, FiniteSets, TLC

VARIABLES
    root,             \* logging.root: [level, handlers]
    loggerDict,       \* logging.Logger.manager.loggerDict: name -> entry
    warningsState,    \* [captured, filter] set by initialize_logging
    environ,          \* os.environ: DJANGO_ENV and PYTHONWARNINGS
    excepthook,       \* sys.excepthook
    old_excepthook,   \* module global __old_excepthook__
    defaultArguments, \* the default value object of parse_args' `arguments`
    fs,               \* filesystem: path -> "none" | "dir" | "file"
    rng,              \* [torch, numpy, random]: seed last given to each
    max_colwidth,     \* pd.options.display.max_colwidth
    today_hash,       \* hash(TODAY.date), fixed when the module is imported
    calls,            \* number of parse_args calls made so far
    logging_call,     \* arguments of the most recent initialize_logging call
    last              \* observation of the most recent operation

vars == <<root, loggerDict, warningsState, environ, excepthook, old_excepthook,
          defaultArguments, fs, rng, max_colwidth, today_hash, calls, logging_call,
          last>>

-----------------------------------------------------------------------------
(* Bounds of the model *)

\* parse_args calls explored
MaxCalls == 3

\* handlers a logger may carry before initialize_logging runs
MaxHandlers == 3

\* --seed values lie within this many multiples of 2^32 - 1 from 0
SeedSpan == 1

\* length of the iterables given to first / last
MaxIterLen == 3

\* length of the argument lists callers supply
MaxCallerArgs == 2

-----------------------------------------------------------------------------
(* Python integers.  --seed values exceed the range of TLC's integers, so  *)
(* an integer n is the pair <<h, l>> with n = h * 2^16 + l, 0 <= l < 2^16. *)

B == 2^16

Zero == <<0, 0>>

Small(n) == <<0, n>>

IntAdd(a, b) ==
    LET l == a[2] + b[2]
    IN  IF l >= B THEN <<a[1] + b[1] + 1, l - B>> ELSE <<a[1] + b[1], l>>

IntSub(a, b) ==
    LET l == a[2] - b[2]
    IN  IF l < 0 THEN <<a[1] - b[1] - 1, l + B>> ELSE <<a[1] - b[1], l>>

IntLess(a, b) == a[1] < b[1] \/ (a[1] = b[1] /\ a[2] < b[2])

IntLeq(a, b) == a = b \/ IntLess(a, b)

\* k * a for a small TLC integer k
RECURSIVE IntTimes(_, _)
IntTimes(k, a) ==
    IF k = 0 THEN Zero
    ELSE IF k > 0 THEN IntAdd(IntTimes(k - 1, a), a)
    ELSE IntSub(IntTimes(k + 1, a), a)

\* Python's a % m for m > 0: the r in 0 .. m-1 with a - r a multiple of m
RECURSIVE PyMod(_, _)
PyMod(a, m) ==
    IF IntLess(a, Zero) THEN PyMod(IntAdd(a, m), m)
    ELSE IF IntLeq(m, a) THEN PyMod(IntSub(a, m), m)
    ELSE a

\* C-style remainder, whose sign follows the dividend
CRem(a, m) ==
    IF IntLess(a, Zero) /\ PyMod(a, m) # Zero THEN IntSub(PyMod(a, m), m)
    ELSE PyMod(a, m)

\* 2**32-1
SeedModulus == <<B - 1, B - 1>>

\* args.seed %= 2**32-1
ReduceSeedTruncating(s) == CRem(s, SeedModulus)
ReduceSeed(s) == PyMod(s, SeedModulus)

-----------------------------------------------------------------------------
(* logging *)

DEBUG == 10
INFO == 20
WARNING == 30
NOTSET == 0

ITEM_FORMAT == "%(asctime)s %(levelname)s %(funcName)s: %(message)s"
BASIC_FORMAT == "%(levelname)s:%(name)s:%(message)s"

None == "<None>"
Stderr == "<stderr>"

\* a handler installed by somebody else before our configuration
ForeignHandler(k) == [dest |-> "foreign", fmt |-> "foreign", id |-> k]

RECURSIVE ForeignHandlers(_)
ForeignHandlers(n) ==
    IF n = 0 THEN <<>> ELSE Append(ForeignHandlers(n - 1), ForeignHandler(n))

\* the loggers initialize_logging names, their ancestors, and an application logger
QuietLoggers ==
    <<"bokeh.io.state", "matplotlib.axes._base", "matplotlib.colorbar",
      "matplotlib.font_manager", "matplotlib.pyplot">>

LoggerNames ==
    {QuietLoggers[i] : i \in 1..Len(QuietLoggers)}
        \cup {"bokeh", "bokeh.io", "matplotlib", "matplotlib.axes", "app"}

Ancestors(name) ==
    CASE name = "bokeh.io.state" -> {"bokeh", "bokeh.io"}
      [] name = "bokeh.io" -> {"bokeh"}
      [] name = "matplotlib.axes._base" -> {"matplotlib", "matplotlib.axes"}
      [] name = "matplotlib.axes" -> {"matplotlib"}
      [] name \in {"matplotlib.colorbar", "matplotlib.font_manager", "matplotlib.pyplot"}
            -> {"matplotlib"}
      [] OTHER -> {}

Absent == [kind |-> "absent", level |-> NOTSET, handlers |-> <<>>]
PlaceHolder == [kind |-> "PlaceHolder", level |-> NOTSET, handlers |-> <<>>]
NewLogger == [kind |-> "Logger", level |-> NOTSET, handlers |-> <<>>]

\* logging.getLogger(name): creates the logger and placeholders for its ancestors
GetLogger(dict, name) ==
    [n \in LoggerNames |->
        IF n = name /\ dict[n].kind # "Logger" THEN NewLogger
        ELSE IF n \in Ancestors(name) /\ dict[n].kind = "absent" THEN PlaceHolder
        ELSE dict[n]]

\* logger.removeHandler(handler): drops the handler if the logger has it
RemoveHandler(handlers, h) ==
    IF \E i \in 1..Len(handlers) : handlers[i] = h
    THEN LET i == CHOOSE j \in 1..Len(handlers) :
                      handlers[j] = h /\ \A k \in 1..(j - 1) : handlers[k] # h
         IN  SubSeq(handlers, 1, i - 1) \o SubSeq(handlers, i + 1, Len(handlers))
    ELSE handlers

\* for handler in logger.handlers: logger.removeHandler(handler)
\* The list iterator holds a position into the list that is being shortened.
RECURSIVE RemoveEachHandler(_, _)
RemoveEachHandler(handlers, pos) ==
    IF pos > Len(handlers) THEN handlers
    ELSE RemoveEachHandler(RemoveHandler(handlers, handlers[pos]), pos + 1)

\* the reset loop of initialize_logging over loggerDict.values()
ResetHandlers(dict) ==
    [n \in LoggerNames |->
        IF dict[n].kind # "Logger" THEN dict[n]
        ELSE [dict[n] EXCEPT !.handlers = RemoveEachHandler(dict[n].handlers, 1)]]

\* logging.basicConfig(format=..., level=..., [filename=...]): does nothing
\* when the root logger already has handlers
BasicConfig(r, fmt, level, filename) ==
    IF Len(r.handlers) = 0
    THEN [level |-> level,
          handlers |-> <<[dest |-> IF filename = None THEN Stderr ELSE filename,
                          fmt |-> fmt, id |-> 0]>>]
    ELSE r

\* module-level logging.debug / info / critical: configures the root logger
\* with the library defaults (level left alone) when it has no handler yet
ModuleLevelLog(r) == BasicConfig(r, BASIC_FORMAT, r.level, None)

RECURSIVE SetLevels(_, _, _)
SetLevels(dict, i, level) ==
    IF i > Len(QuietLoggers) THEN dict
    ELSE LET d == GetLogger(dict, QuietLoggers[i])
         IN  SetLevels([d EXCEPT ![QuietLoggers[i]].level = level], i + 1, level)

\* initialize_logging(level, filename) as a function of the logging state
initialize_logging(r, dict, level, filename) ==
    [root |-> BasicConfig(r, ITEM_FORMAT, level,
                          IF filename \in {None, ""} THEN None ELSE filename),
     loggerDict |-> SetLevels(ResetHandlers(dict), 1, level + 1),
     warningsState |-> [captured |-> TRUE, filter |-> "ignore"]]

-----------------------------------------------------------------------------
(* handle_unhandled_exception *)

Handler == "handle_unhandled_exception"
DefaultHook == "sys.__excepthook__"

ExceptionTypes == {"SyntaxError", "IndentationError", "ValueError", "KeyboardInterrupt"}

\* the condition of the `if`: interactive prompt, a stream that is no tty,
\* or a SyntaxError (compared with ==, so subclasses do not count)
DefersAllRequired(ps1, errtty, intty, outtty, type) ==
    ps1 /\ ~errtty /\ ~intty /\ ~outtty /\ type = "SyntaxError"
Defers(ps1, errtty, intty, outtty, type) ==
    ps1 \/ ~errtty \/ ~intty \/ ~outtty \/ type = "SyntaxError"

HandleUnhandledException(type, value, tb, ps1, errtty, intty, outtty) ==
    LET defers == Defers(ps1, errtty, intty, outtty, type)
    IN  /\ root' = IF defers THEN root ELSE ModuleLevelLog(root)
        /\ last' = [op |-> Handler,
                    type |-> type, value |-> value, tb |-> tb,
                    ps1 |-> ps1, errtty |-> errtty, intty |-> intty, outtty |-> outtty,
                    hook_calls |-> IF defers
                                   THEN <<[hook |-> old_excepthook,
                                           args |-> <<type, value, tb>>]>>
                                   ELSE <<>>,
                    critical |-> IF defers THEN <<>> ELSE <<<<type, value, tb>>>>,
                    pm |-> ~defers]
        /\ UNCHANGED <<loggerDict, warningsState, environ, excepthook, old_excepthook,
                       defaultArguments, fs, rng, max_colwidth, today_hash, calls,
                       logging_call>>

-----------------------------------------------------------------------------
(* first / last *)

NaN == "<nan>"

\* the value a function returns when it falls off its end
ImplicitNone == None

ItemValues == {"a", "b", None, NaN}

\* pd.notnull on a scalar
notnull(item) == item \notin {None, NaN}

\* An iterable yields `items` and then stops, or then raises an exception of
\* class `raises` ("Exception", or "BaseException" for one that `except
\* Exception` does not catch).
Iterables ==
    {[items |-> s, raises |-> r] :
        s \in UNION {[1..n -> ItemValues] : n \in 0..MaxIterLen},
        r \in {"none", "Exception", "BaseException"}}

first(iterable) ==
    LET item0 == NaN
    IN  IF Len(iterable.items) > 0
        THEN [outcome |-> "returned", value |-> iterable.items[1]]
        ELSE IF iterable.raises = "Exception"
        THEN [outcome |-> "returned",
              value |-> IF notnull(item0) THEN item0 ELSE NaN]
        ELSE IF iterable.raises = "BaseException"
        THEN [outcome |-> "raised", value |-> "BaseException"]
        ELSE [outcome |-> "returned", value |-> ImplicitNone]

python_last(iterable) ==
    LET n == Len(iterable.items)
        item == IF n > 0 THEN iterable.items[n] ELSE NaN
    IN  IF iterable.raises = "BaseException"
        THEN [outcome |-> "raised", value |-> "BaseException"]
        ELSE [outcome |-> "returned",
              value |-> IF notnull(item) THEN item ELSE NaN]

First(iterable) ==
    /\ last' = [op |-> "first", iterable |-> iterable, result |-> first(iterable)]
    /\ UNCHANGED <<root, loggerDict, warningsState, environ, excepthook, old_excepthook,
                   defaultArguments, fs, rng, max_colwidth, today_hash, calls,
                   logging_call>>

Last(iterable) ==
    /\ last' = [op |-> "last", iterable |-> iterable, result |-> python_last(iterable)]
    /\ UNCHANGED <<root, loggerDict, warningsState, environ, excepthook, old_excepthook,
                   defaultArguments, fs, rng, max_colwidth, today_hash, calls,
                   logging_call>>

-----------------------------------------------------------------------------
(* parse_args *)

Missing == "<missing>"

\* a dict of the `arguments` list; name_or_flags is Missing once popped
ArgSpec(name, origin, dest, kind, int, const, str) ==
    [name_or_flags |-> name, origin |-> origin, dest |-> dest,
     kind |-> kind, int |-> int, const |-> const, str |-> str]

Prog == "prog"
DefaultOutput == "output/today/prog"

\* hash(TODAY.date): some integer fixed for the life of the process
TodayHashes == {<<0 - 7, 11>>, <<B + 3, 5>>}

\* the three dicts appended to `arguments`
DefaultSpecs(h) ==
    <<ArgSpec("--debug", "default", "level", "int", Small(INFO), Small(DEBUG), ""),
      ArgSpec("--seed", "default", "seed", "int", h, Zero, ""),
      ArgSpec("--output", "default", "output", "str", Zero, Zero, DefaultOutput)>>

DefaultNames == {"--debug", "--seed", "--output"}

\* argument dicts a caller may supply
CallerSpecs ==
    {ArgSpec("--input", "caller", "input", "str", Zero, Zero, "in.csv"),
     ArgSpec("--input", "caller-again", "input", "str", Zero, Zero, "other.csv"),
     ArgSpec("--seed", "caller", "seed", "int", Small(7), Zero, ""),
     ArgSpec("--output", "caller", "output", "none", Zero, Zero, "")}

\* if name in seen
InSeenNever(name, seen) == FALSE
InSeen(name, seen) == name \in seen

\* the registration loop: position i of `arguments`, names seen, actions
\* registered with the parser, the root logger (logging.debug may configure it)
RECURSIVE RegisterLoop(_, _, _, _, _)
RegisterLoop(arguments, i, seen, registered, r) ==
    IF i > Len(arguments)
    THEN [outcome |-> "ok", arguments |-> arguments, registered |-> registered, root |-> r]
    ELSE LET arg == arguments[i]
             name == arg.name_or_flags
             popped == [arguments EXCEPT ![i].name_or_flags = Missing]
         IN  IF name = Missing
             THEN [outcome |-> "KeyError", arguments |-> arguments,
                   registered |-> registered, root |-> r]
             ELSE IF InSeen(name, seen)
             THEN RegisterLoop(popped, i + 1, seen, registered, ModuleLevelLog(r))
             ELSE IF \E j \in 1..Len(registered) : registered[j].name_or_flags = name
             THEN \* parser.add_argument: conflicting option string
                  [outcome |-> "ArgumentError", arguments |-> popped,
                   registered |-> registered, root |-> r]
             ELSE RegisterLoop(popped, i + 1, seen \cup {name},
                               Append(registered, arg), r)

\* the parser action registered for an option string
ActionFor(registered, name) ==
    registered[CHOOSE j \in 1..Len(registered) : registered[j].name_or_flags = name]

\* parser.parse_args() for the three default option strings
Namespace(registered, argv) ==
    LET debug == ActionFor(registered, "--debug")
        seed == ActionFor(registered, "--seed")
        output == ActionFor(registered, "--output")
    IN  [level |-> IF argv.debug THEN debug.const[2] ELSE debug.int[2],
         seed |-> IF argv.seed_given THEN argv.seed ELSE seed.int,
         output_is_str |-> argv.output_given \/ output.kind = "str",
         output |-> IF argv.output_given THEN argv.output
                    ELSE IF output.kind = "str" THEN output.str ELSE None,
         prog |-> Prog]

Paths == {"output", "output/today", "output/today/prog", "results"}

Parent(p) ==
    CASE p = "output/today/prog" -> "output/today"
      [] p = "output/today" -> "output"
      [] OTHER -> ""

\* os.path.exists(path)
PathExists(f, p) == f[p] # "none"

\* os.makedirs(path): creates the missing ancestors, then the directory
RECURSIVE MakeDirs(_, _)
MakeDirs(f, p) ==
    LET head == Parent(p)
        up == IF head # "" /\ ~PathExists(f, head) THEN MakeDirs(f, head)
              ELSE [outcome |-> "ok", fs |-> f]
    IN  IF up.outcome # "ok" THEN up
        ELSE IF head # "" /\ up.fs[head] = "file"
        THEN [outcome |-> "NotADirectoryError", fs |-> up.fs]
        ELSE IF PathExists(up.fs, p)
        THEN [outcome |-> "FileExistsError", fs |-> up.fs]
        ELSE [outcome |-> "ok", fs |-> [up.fs EXCEPT ![p] = "dir"]]

\* if isinstance(args.output, str) and not os.path.exists(args.output)
CreatesOutput(args, f) == args.output_is_str /\ ~PathExists(f, args.output)

\* if os.environ.get("DJANGO_ENV", "development") != "production"
InstallsHookAlways(env) == TRUE
InstallsHook(env) ==
    (IF env.DJANGO_ENV = None THEN "development" ELSE env.DJANGO_ENV) # "production"

Unseeded == <<0 - 1, 0>>

\* np.random.seed accepts 0 .. 2**32-1 only
NumpyAccepts(seed) == IntLeq(Zero, seed) /\ IntLess(seed, <<B, 0>>)

\* try: import torch; torch.manual_seed(args.seed) / except: pass
SeedTorchPropagating(torch, seed, old) ==
    IF torch = "installed" THEN [outcome |-> "ok", seed |-> seed]
    ELSE [outcome |-> IF torch = "absent" THEN "ImportError" ELSE "RuntimeError",
          seed |-> old]
SeedTorch(torch, seed, old) ==
    [outcome |-> "ok", seed |-> IF torch = "installed" THEN seed ELSE old]

\* load_dotenv: sets the variables of the .env file that are not set yet
LoadDotenv(env, dotenv) ==
    IF dotenv # None /\ env.DJANGO_ENV = None
    THEN [env EXCEPT !.DJANGO_ENV = dotenv] ELSE env

\* parse_args(description, arguments, colwidth_max, logging_kwargs) run with
\* the command line argv, with torch "installed", "absent" or "raises", and
\* with a .env file that sets DJANGO_ENV to `dotenv` (None: it does not)
ParseArgs(a, argv, filename, colwidth_max, torch, dotenv) ==
    LET supplied == IF a.default THEN defaultArguments ELSE a.list
        NoArgs == [level |-> NOTSET, seed |-> Unseeded, output_is_str |-> FALSE,
                   output |-> None, prog |-> Prog]
    IN
    \E loop \in {RegisterLoop(supplied \o DefaultSpecs(today_hash), 1, {}, <<>>, root)} :
    \E parsed \in {loop.outcome = "ok" /\ ~argv.seed_bad} :
    \E args0 \in {IF parsed THEN Namespace(loop.registered, argv) ELSE NoArgs} :
    \E log \in {IF parsed
                THEN initialize_logging(loop.root, loggerDict, args0.level, filename)
                ELSE [root |-> loop.root, loggerDict |-> loggerDict,
                      warningsState |-> warningsState]} :
    \E creates \in {parsed /\ CreatesOutput(args0, fs)} :
    \E mk \in {IF creates THEN MakeDirs(fs, args0.output)
               ELSE [outcome |-> "ok", fs |-> fs]} :
    \E made \in {parsed /\ mk.outcome = "ok"} :
    \E seed \in {IF made THEN ReduceSeed(args0.seed) ELSE Unseeded} :
    \E t \in {IF made THEN SeedTorch(torch, seed, rng.torch)
              ELSE [outcome |-> "ok", seed |-> rng.torch]} :
    \E seeded \in {made /\ t.outcome = "ok" /\ NumpyAccepts(seed)} :
        /\ calls < MaxCalls
        /\ calls' = calls + 1
        /\ defaultArguments' = IF a.default THEN loop.arguments ELSE defaultArguments
        /\ root' = IF seeded THEN ModuleLevelLog(log.root) ELSE log.root
        /\ loggerDict' = log.loggerDict
        /\ warningsState' = log.warningsState
        /\ logging_call' = IF parsed
                           THEN [called |-> TRUE, level |-> args0.level, filename |-> filename]
                           ELSE logging_call
        /\ fs' = mk.fs
        /\ excepthook' = IF made /\ InstallsHook(environ) THEN Handler ELSE excepthook
        /\ rng' = [torch |-> t.seed,
                   numpy |-> IF seeded THEN seed ELSE rng.numpy,
                   random |-> IF seeded THEN seed ELSE rng.random]
        /\ max_colwidth' = IF seeded THEN colwidth_max ELSE max_colwidth
        /\ environ' = [DJANGO_ENV |-> IF seeded THEN LoadDotenv(environ, dotenv).DJANGO_ENV
                                      ELSE environ.DJANGO_ENV,
                       PYTHONWARNINGS |-> IF parsed THEN "ignore"
                                          ELSE environ.PYTHONWARNINGS]
        /\ last' = [op |-> "parse_args",
                    arguments |-> a, argv |-> argv, torch |-> torch,
                    outcome |-> IF loop.outcome # "ok" THEN loop.outcome
                                ELSE IF argv.seed_bad THEN "SystemExit"
                                ELSE IF mk.outcome # "ok" THEN mk.outcome
                                ELSE IF t.outcome # "ok" THEN t.outcome
                                ELSE IF ~seeded THEN "ValueError"
                                ELSE "returned",
                    registered |-> loop.registered,
                    args |-> IF made THEN [args0 EXCEPT !.seed = seed] ELSE args0,
                    makedirs |-> creates,
                    output_before |-> IF parsed /\ args0.output_is_str
                                      THEN fs[args0.output] ELSE None,
                    reached_hook |-> made,
                    reached_seeding |-> made,
                    env_before |-> environ.DJANGO_ENV,
                    hook_before |-> excepthook]
        /\ UNCHANGED <<old_excepthook, today_hash>>

\* a direct call initialize_logging(level, filename)
InitializeLogging(level, filename) ==
    LET log == initialize_logging(root, loggerDict, level, filename)
    IN  /\ root' = log.root
        /\ loggerDict' = log.loggerDict
        /\ warningsState' = log.warningsState
        /\ environ' = [environ EXCEPT !.PYTHONWARNINGS = "ignore"]
        /\ logging_call' = [called |-> TRUE, level |-> level, filename |-> filename]
        /\ last' = [op |-> "initialize_logging", level |-> level, filename |-> filename,
                    root_before |-> Len(root.handlers),
                    handlers_before |->
                        [n \in LoggerNames |-> Len(loggerDict[n].handlers)]]
        /\ UNCHANGED <<excepthook, old_excepthook, defaultArguments, fs, rng,
                       max_colwidth, today_hash, calls>>

-----------------------------------------------------------------------------
(* Initial states and inputs *)

\* loggerDict before our code runs: an application logger and possibly
\* matplotlib.pyplot (with the placeholder of its parent), each with handlers
InitialLoggerDict(app, pyplot) ==
    [n \in LoggerNames |->
        IF n = "app" THEN [NewLogger EXCEPT !.handlers = ForeignHandlers(app)]
        ELSE IF n = "matplotlib.pyplot" /\ pyplot >= 0
        THEN [NewLogger EXCEPT !.handlers = ForeignHandlers(pyplot)]
        ELSE IF n = "matplotlib" /\ pyplot >= 0 THEN PlaceHolder
        ELSE Absent]

\* filesystems in which a path exists only inside a directory
Filesystems ==
    {f \in [Paths -> {"none", "dir", "file"}] :
        \A p \in Paths : (f[p] # "none" /\ Parent(p) # "") => f[Parent(p)] = "dir"}

EmptyFs == [p \in Paths |-> "none"]

InitWith(appCounts, pyplotCounts, rootCounts, filesystems, envs, hashes) ==
    /\ \E k \in rootCounts : root = [level |-> WARNING, handlers |-> ForeignHandlers(k)]
    /\ \E app \in appCounts, pyplot \in pyplotCounts :
            loggerDict = InitialLoggerDict(app, pyplot)
    /\ warningsState = [captured |-> FALSE, filter |-> "default"]
    /\ \E e \in envs : environ = [DJANGO_ENV |-> e, PYTHONWARNINGS |-> None]
    /\ excepthook = DefaultHook
    /\ old_excepthook = DefaultHook
    /\ defaultArguments = <<>>
    /\ fs \in filesystems
    /\ rng = [torch |-> Unseeded, numpy |-> Unseeded, random |-> Unseeded]
    /\ max_colwidth = 50
    /\ today_hash \in hashes
    /\ calls = 0
    /\ logging_call = [called |-> FALSE, level |-> NOTSET, filename |-> None]
    /\ last = [op |-> "import"]

OneHash == {CHOOSE h \in TodayHashes : TRUE}

\* command lines
Argv(debug, seed, output) ==
    [debug |-> debug,
     seed_given |-> seed.given, seed |-> seed.value, seed_bad |-> seed.bad,
     output_given |-> output # None, output |-> output]

NoSeed == [given |-> FALSE, value |-> Zero, bad |-> FALSE]
BadSeed == [given |-> TRUE, value |-> Zero, bad |-> TRUE]
GivenSeed(v) == [given |-> TRUE, value |-> v, bad |-> FALSE]

\* --seed values at and next to the multiples of 2^32 - 1: among them
\* -2^32, -1, 0, 1, 2^32 - 2, 2^32 - 1 and 2^32
SeedValues ==
    UNION {{IntSub(IntTimes(k, <<B - 1, B - 1>>), Small(1)),
            IntTimes(k, <<B - 1, B - 1>>),
            IntAdd(IntTimes(k, <<B - 1, B - 1>>), Small(1))} :
                k \in (0 - SeedSpan)..SeedSpan}

CallerLists == UNION {[1..n -> CallerSpecs] : n \in 0..MaxCallerArgs}

DefaultArgument == [default |-> TRUE, list |-> <<>>]
Supplied(list) == [default |-> FALSE, list |-> list]

ColwidthMax == 125

NoPyplot == 0 - 1

NoArgv == Argv(FALSE, NoSeed, None)

TorchStates == {"installed", "absent", "raises"}

-----------------------------------------------------------------------------
(* Specifications.  Each draws the inputs of the operations it exercises   *)
(* from the sets that matter to them; the others take their defaults.      *)

\* first and last applied to iterables
InitSeq == InitWith({0}, {NoPyplot}, {0}, {EmptyFs}, {None}, OneHash)

NextSeq ==
    \/ \E it \in Iterables : First(it)
    \/ \E it \in Iterables : Last(it)

SpecSeq == InitSeq /\ [][NextSeq]_vars

\* the exception hook and its installation by parse_args
InitHook ==
    InitWith({0}, {NoPyplot}, {0, 1}, {EmptyFs}, {None, "production", "development"},
             OneHash)

HookArguments == {DefaultArgument, Supplied(<<>>)}

NextHook ==
    \/ \E type \in ExceptionTypes, value \in {"v1", "v2"}, tb \in {"tb"},
          ps1 \in BOOLEAN, errtty \in BOOLEAN, intty \in BOOLEAN, outtty \in BOOLEAN :
            HandleUnhandledException(type, value, tb, ps1, errtty, intty, outtty)
    \/ \E a \in HookArguments, dotenv \in {None, "production"} :
            ParseArgs(a, NoArgv, None, ColwidthMax, "absent", dotenv)

SpecHook == InitHook /\ [][NextHook]_vars

\* logging configuration, directly and through parse_args
InitLogging ==
    InitWith(0..MaxHandlers, NoPyplot..MaxHandlers, 0..MaxHandlers, {EmptyFs}, {None},
             OneHash)

SuppliedArguments == {Supplied(list) : list \in CallerLists}

DebugArgv == {Argv(debug, NoSeed, None) : debug \in BOOLEAN}

NextLogging ==
    \/ \E level \in {DEBUG, INFO, WARNING}, filename \in {None, "run.log"} :
            InitializeLogging(level, filename)
    \/ \E a \in SuppliedArguments, argv \in DebugArgv, filename \in {None, "run.log"} :
            ParseArgs(a, argv, filename, ColwidthMax, "absent", None)

SpecLogging == InitLogging /\ [][NextLogging]_vars

\* the argument surface: default and caller-supplied argument lists
InitArgs == InitWith({0}, {NoPyplot}, {0}, {EmptyFs}, {None}, OneHash)

AnyArguments == {DefaultArgument} \cup SuppliedArguments

NextArgs ==
    \E a \in AnyArguments, argv \in DebugArgv :
        ParseArgs(a, argv, None, ColwidthMax, "absent", None)

SpecArgs == InitArgs /\ [][NextArgs]_vars

\* seeding: --seed values and the optional torch dependency
InitSeed == InitWith({0}, {NoPyplot}, {0}, {EmptyFs}, {None}, TodayHashes)

SeedArgv ==
    {Argv(FALSE, seed, None) :
        seed \in {NoSeed, BadSeed} \cup {GivenSeed(v) : v \in SeedValues}}

NextSeed ==
    \E a \in HookArguments, argv \in SeedArgv, torch \in TorchStates :
        ParseArgs(a, argv, None, ColwidthMax, torch, None)

SpecSeed == InitSeed /\ [][NextSeed]_vars

\* the output directory, over filesystems that hold files and directories
InitOutput == InitWith({0}, {NoPyplot}, {0}, Filesystems, {None}, OneHash)

OutputArguments ==
    {Supplied(<<>>),
     Supplied(<<ArgSpec("--output", "caller", "output", "none", Zero, Zero, "")>>)}

OutputArgv == {Argv(FALSE, NoSeed, output) : output \in {None, "results", "output/today"}}

NextOutput ==
    \E a \in OutputArguments, argv \in OutputArgv :
        ParseArgs(a, argv, None, ColwidthMax, "absent", None)

SpecOutput == InitOutput /\ [][NextOutput]_vars

-----------------------------------------------------------------------------
(* Properties *)

Names(specs) == {specs[i].name_or_flags : i \in 1..Len(specs)}

\* C1: handle_unhandled_exception logs at critical level and enters the
\* post-mortem debugger exactly when stdin, stdout and stderr are ttys, sys.ps1
\* is unset and the type is not SyntaxError; otherwise it calls the default hook
\* captured at import once, with the same (type, value, tb), and neither logs
\* nor enters the debugger.
C1_HookDispatch ==
    last.op = Handler =>
        LET exc == <<last.type, last.value, last.tb>>
            debugs == /\ last.errtty /\ last.intty /\ last.outtty
                      /\ ~last.ps1
                      /\ last.type # "SyntaxError"
        IN  IF debugs
            THEN last.critical = <<exc>> /\ last.pm /\ last.hook_calls = <<>>
            ELSE /\ last.hook_calls = <<[hook |-> DefaultHook, args |-> exc]>>
                 /\ last.critical = <<>>
                 /\ ~last.pm

\* the hook, once installed by parse_args, takes the debugger branch
C1_Witness ==
    /\ last.op = Handler
    /\ excepthook = Handler
    /\ last.pm
    /\ last.type = "IndentationError"

\* C2: every parse_args call made with the default `arguments` parameter, the
\* second and later ones included, registers exactly --debug, --seed and
\* --output and returns normally.
C2_DefaultCallsIndependent ==
    (last.op = "parse_args" /\ last.arguments.default) =>
        /\ last.outcome = "returned"
        /\ Len(last.registered) = 3
        /\ Names(last.registered) = DefaultNames

C4_OutputDirectoryExists ==
    (last.op = "parse_args" /\ last.outcome = "returned" /\ last.args.output_is_str) =>
        fs[last.args.output] = "dir"

\* C5: a failure while seeding torch (not importable, or manual_seed raising)
\* does not leave parse_args: once the seeding is reached, numpy and random
\* are seeded with args.seed and parse_args returns, with or without torch.
C5_TorchFailureSwallowed ==
    (last.op = "parse_args" /\ last.reached_seeding) =>
        /\ last.outcome = "returned"
        /\ rng.numpy = last.args.seed
        /\ rng.random = last.args.seed

\* torch is absent, and numpy and random are seeded all the same
C5_Witness ==
    /\ last.op = "parse_args"
    /\ last.reached_seeding
    /\ last.torch = "absent"
    /\ last.argv.seed_given
    /\ rng.torch # last.args.seed
    /\ rng.numpy = last.args.seed

\* C6: for every integer --seed value s, args.seed is s mod (2^32 - 1), the
\* one value in 0 .. 2^32 - 2 that differs from s by a multiple of 2^32 - 1,
\* and that value is the seed given to numpy, random and (when present)
\* torch; the seeds of the generators are thus a function of s.
C6_SeedReduced ==
    (last.op = "parse_args" /\ last.reached_seeding /\ last.argv.seed_given) =>
        LET s == last.argv.seed
            r == last.args.seed
        IN  /\ IntLeq(Zero, r)
            /\ IntLeq(r, <<B - 1, B - 2>>)
            /\ \E k \in (0 - SeedSpan - 2)..(SeedSpan + 2) :
                    IntAdd(r, IntTimes(k, <<B - 1, B - 1>>)) = s
            /\ rng.numpy = r
            /\ rng.random = r
            /\ last.torch = "installed" => rng.torch = r

\* --seed -1 becomes 2^32 - 2 in every generator
C6_Witness ==
    /\ last.op = "parse_args"
    /\ last.outcome = "returned"
    /\ last.argv.seed_given
    /\ last.argv.seed = <<0 - 1, B - 1>>
    /\ last.torch = "installed"
    /\ rng = [torch |-> <<B - 1, B - 2>>, numpy |-> <<B - 1, B - 2>>,
              random |-> <<B - 1, B - 2>>]

\* C7: once initialize_logging has run its reset loop, no logger of loggerDict
\* has a handler, whatever number it had before.
C7_HandlersReset ==
    logging_call.called =>
        \A n \in LoggerNames :
            loggerDict[n].kind = "Logger" => Len(loggerDict[n].handlers) = 0

\* C8: after any sequence of initialize_logging calls the root logger has the
\* level of the most recent call and writes to its destination in its format.
C8_LatestConfigurationWins ==
    logging_call.called =>
        /\ root.level = logging_call.level
        /\ \E i \in 1..Len(root.handlers) :
                /\ root.handlers[i].fmt = ITEM_FORMAT
                /\ root.handlers[i].dest =
                        IF logging_call.filename = None THEN Stderr
                        ELSE logging_call.filename

\* C9: a parse_args call that reaches the installation makes
\* handle_unhandled_exception the sys.excepthook iff DJANGO_ENV is unset or
\* not "production", and otherwise leaves sys.excepthook as it was; the hook
\* handle_unhandled_exception defers to stays the one captured at import.
C9_HookInstallation ==
    /\ old_excepthook = DefaultHook
    /\ (last.op = "parse_args" /\ last.reached_hook) =>
            excepthook = IF last.env_before = None \/ last.env_before # "production"
                         THEN Handler ELSE last.hook_before

\* a second call in production leaves the hook the first call did not install
C9_Witness ==
    /\ last.op = "parse_args"
    /\ last.reached_hook
    /\ calls >= 2
    /\ last.env_before = "production"
    /\ excepthook = DefaultHook

\* C10: on an iterable that raises nothing and holds non-null elements, first
\* returns the first element and last the last one; on an empty iterable both
\* return NaN.
C10_FirstLast ==
    (/\ last.op \in {"first", "last"}
     /\ last.iterable.raises = "none"
     /\ \A i \in 1..Len(last.iterable.items) : notnull(last.iterable.items[i])) =>
        LET items == last.iterable.items
        IN  /\ last.result.outcome = "returned"
            /\ last.result.value =
                    IF Len(items) = 0 THEN NaN
                    ELSE IF last.op = "first" THEN items[1]
                    ELSE items[Len(items)]

====
